---- MODULE Spec2Model ----
(***************************************************************************)
(* A model of the concurrent fan-out / fan-in part of stream.py:           *)
(* iterqueue, ThreadedFeeder, ForkedFeeder, AsyncThreadPool /              *)
(* AsyncProcessPool, QCollector / PCollector, PSorter and the attach       *)
(* protocol (__pipe__).                                                    *)
(*                                                                         *)
(* Several state machines share the module, each with its own variables    *)
(* and its own specifications:                                             *)
(*   SpecFeeder      a ThreadedFeeder and the readers of its output queue  *)
(*   SpecFeederFail  the same over a generator that may raise              *)
(*   SpecReiterate   a feeder of either kind iterated a second time        *)
(*   SpecPool        an AsyncThreadPool, its upstream and one consumer     *)
(*   SpecPoolFail    the same with a function that raises on one value     *)
(*   SpecCollector   a collector (or a sorter's collect loop) and sources  *)
(*   SpecSorter      a PSorter: sources, collect and merge threads, reader *)
(*   SpecAttach      producers piped into a collector or sorter            *)
(***************************************************************************)
EXTENDS Integers, Sequences, FiniteSets, TLC

\* ------------------------------------------------------------------ bounds

\* Longest sequence a generator (or an upstream input) yields.
MaxLen == 3
\* Most concurrent readers of one feeder's output queue.
MaxReaders == 2
\* Largest pool size tried (pool sizes 0..MaxPool).
MaxPool == 2
\* Number of sources that may register with a collector or sorter.
NumSrc == 2
\* Most items the sources of one collector produce together.
MaxItems == 3
\* Most producers attached to one collector or sorter by the attach protocol.
MaxAttach == 3

\* ----------------------------------------------------------- shared helpers

\* The end-marker: the object StopIteration, told apart from every payload.
END == -1

\* Payload values of the generators and upstreams.
Vals == {2, 3}

\* All sequences over S of length at most n.
SeqsUpTo(S, n) == UNION {[1..k -> S] : k \in 0..n}

Range(s) == {s[i] : i \in DOMAIN s}

RECURSIVE Count(_, _)
\* Number of occurrences of v in the sequence s.
Count(s, v) ==
  IF s = <<>> THEN 0
  ELSE (IF Head(s) = v THEN 1 ELSE 0) + Count(Tail(s), v)

\* s and t hold the same elements with the same multiplicities.
MultisetEq(s, t) ==
  /\ Len(s) = Len(t)
  /\ \A v \in Range(s) \union Range(t) : Count(s, v) = Count(t, v)

IsPrefix(s, t) ==
  /\ Len(s) <= Len(t)
  /\ \A i \in 1..Len(s) : s[i] = t[i]

\* A mutant of QPut: the item is put at the head (a LIFO queue).
QPutFront(q, item) == <<item>> \o q

\* A mutant of QPut: a queue of capacity one that discards what does not fit.
QPutLossy(q, item) == IF q = <<>> THEN <<item>> ELSE q

\* Queue.put(item): append at the tail (the queues are unbounded: never blocks).
QPut(q, item) == Append(q, item)

\* A mutant of Rebroadcast: the end-marker is put back twice.
RebroadcastTwice(q) == QPut(QPut(q, END), END)

\* A mutant of Rebroadcast: the end-marker is consumed and not put back.
RebroadcastDropped(q) == q

\* iterqueue, the branch taken on StopIteration: queue.put(StopIteration).
Rebroadcast(q) == QPut(q, END)

VARIABLES
  \* ---- ThreadedFeeder
  gen,           \* the finite sequence the wrapped generator yields
  gi,            \* number of items the generator has yielded so far
  fpc,           \* feeder thread: "run" | "done" | "dead"
  output_queue,  \* ThreadedFeeder.output_queue (ForkedFeeder: the pipe)
  nReaders,      \* how many readers iterate the feeder
  rpc,           \* reader r's iterqueue: "get" | "reput" | "done"
  rcv,           \* items reader r has received, in order
  fkind,         \* "ThreadedFeeder" | "ForkedFeeder" ("none": no feeder)
  raises,        \* TRUE: after its items the generator raises an error
  firstPass,     \* firstPass[r]: -1 during r's first iteration, afterwards
                 \* the number of items that first iteration yielded
  \* ---- AsyncThreadPool / AsyncProcessPool
  poolsize,      \* the poolsize argument of the constructor
  pool,          \* "none" before the constructor ran, then "constructed"
  upstream,      \* the finite input sequence piped into the pool
  fdpc,          \* feeder thread of __call__: "none" | "run" | "done"
  fdi,           \* number of upstream items the feeder has put
  fed,           \* history: everything the feeder has put on inqueue
  inqueue,       \* self.inqueue
  outqueue,      \* self.outqueue
  wpc,           \* worker w: "off" | "get" | "put" | "reput" | "done" | "dead"
  witem,         \* the input item worker w holds between its get and its put
  clpc,          \* cleanup thread: "off" | "join" | "done"
  cljoin,        \* index of the worker the cleanup thread is joining
  outMarkers,    \* history: end-markers put on outqueue by a pool context
  opc,           \* consumer's iterqueue(outqueue): "get" | "reput" | "done"
  out,           \* items the consumer has received
  failOn,        \* the input item on which the function raises (0: on none)
  \* ---- QCollector / PCollector / PSorter.run (collect)
  kind,          \* "QCollector" | "PCollector" | "_PCollector" | "PSorter"
  desc,          \* desc[s]: source s produces its items in decreasing order
  srcLen,        \* srcLen[s]: how many items source s produces before its marker
  srcPut,        \* srcPut[s]: how many puts (items, then the marker) s has done
  chan,          \* chan[s]: source s's outqueue / outpipe, as a FIFO
  reg,           \* reg[s]: "no" | "early" | "mid" | "late" | "gap" | "afterEnd"
  inqueues,      \* self.inqueues / self.inpipes: the active sources, in order
  cpc,           \* the loop: "idle" | "while" | "scan" | "select" | "for"
                 \*           | "ended" | "crashed"
  scanIdx,       \* position of the polling scan in self.inqueues
  watch,         \* the list select.select was called with
  ready,         \* the ready list, as far as the for loop has not consumed it
  cout,          \* items the collector has yielded, in order
  snap,          \* PSorter: the copy of self.inpipes behind qindex
  staged,        \* PSorter: staged[s], the staging queue of source s
  retired,       \* history: how many times s was removed from the active list
  markerRead,    \* history: how many end-markers were read from s
  \* ---- the attach protocol (Stream.pipe, __pipe__)
  acls,          \* class of the collector or sorter producers are piped into
  alist,         \* its source list (inpipes / inqueues): the producers attached
  aprod,         \* class of the producer of the latest pipe call
  ares,          \* its outcome: "none" | "attached" | "AttributeError"
  \* ---- a sorter's merge thread: ThreadedFeeder(heapq.merge, ...)
  mpc,           \* "off" | "prime" | "yield" | "refill" | "done"
  mi,            \* the iterable heapq.merge is calling next() on
  heap,          \* heapq.merge's heap h: the entries <<value, itnum>>
  \* ---- the timing of a collector's sources
  steered,       \* the sources are timed so as to obtain one chosen output
  goal           \* that output (<<>> when the sources run as they like)

fvars == <<gen, gi, fpc, output_queue, nReaders, rpc, rcv, fkind, raises,
           firstPass>>

pvars == <<poolsize, pool, upstream, fdpc, fdi, fed, inqueue, outqueue,
           wpc, witem, clpc, cljoin, outMarkers, opc, out, failOn>>

cvars == <<kind, desc, srcLen, srcPut, chan, reg, inqueues, cpc, scanIdx, watch,
           ready, cout, snap, staged, retired, markerRead>>

avars == <<acls, alist, aprod, ares>>

mvars == <<mpc, mi, heap>>

gvars == <<steered, goal>>

vars == <<fvars, pvars, cvars, avars, mvars, gvars>>

\* What the steps of one machine leave alone: the other machines' variables.
otherThanFeeder == <<pvars, cvars, avars, mvars, gvars>>
otherThanPool == <<fvars, cvars, avars, mvars, gvars>>
otherThanCollector == <<fvars, pvars, avars, mvars, gvars>>
otherThanAttach == <<fvars, pvars, cvars, mvars, gvars>>

\* The feeder's variables while no feeder is in play.
FeederOff ==
  /\ gen = <<>> /\ gi = 0 /\ fpc = "done" /\ output_queue = <<>>
  /\ nReaders = 0 /\ rpc = <<>> /\ rcv = <<>>
  /\ fkind = "none" /\ raises = FALSE /\ firstPass = <<>>

\* The pool's variables while no pool is in play.
PoolOff ==
  /\ poolsize = 0 /\ pool = "none" /\ upstream = <<>>
  /\ fdpc = "none" /\ fdi = 0 /\ fed = <<>>
  /\ inqueue = <<>> /\ outqueue = <<>>
  /\ wpc = <<>> /\ witem = <<>>
  /\ clpc = "off" /\ cljoin = 0 /\ outMarkers = 0
  /\ opc = "get" /\ out = <<>>
  /\ failOn = 0

\* The collector's variables while no collector is in play.
CollectorOff ==
  /\ kind = "none" /\ desc = <<>> /\ srcLen = <<>> /\ srcPut = <<>> /\ chan = <<>>
  /\ reg = <<>> /\ inqueues = <<>> /\ cpc = "ended" /\ scanIdx = 0
  /\ watch = <<>> /\ ready = <<>> /\ cout = <<>> /\ snap = <<>>
  /\ staged = <<>> /\ retired = <<>> /\ markerRead = <<>>

\* The merge thread's variables while no sorter runs one.
MergeOff ==
  /\ mpc = "off" /\ mi = 0 /\ heap = {}

\* The sources are timed by nothing but themselves.
Unsteered ==
  /\ steered = FALSE /\ goal = <<>>

\* The attach protocol's variables while no pipe call is in play.
AttachOff ==
  /\ acls = "none" /\ alist = <<>> /\ aprod = "none" /\ ares = "none"

\* ------------------------------------------------------------ ThreadedFeeder

Readers == 1..MaxReaders

\* State after a feeder's constructor: empty channel, execution context
\* started; each reader has called iter(feeder) once and holds a fresh generator.
FeederSetup ==
  /\ gen \in SeqsUpTo(Vals, MaxLen)
  /\ gi = 0
  /\ fpc = "run"
  /\ output_queue = <<>>
  /\ nReaders \in 1..MaxReaders
  /\ rpc = [r \in Readers |-> "get"]
  /\ rcv = [r \in Readers |-> <<>>]
  /\ firstPass = [r \in Readers |-> -1]

\* State after ThreadedFeeder(generator) over a generator that ends by
\* exhaustion.
FeederInit ==
  /\ FeederSetup
  /\ fkind = "ThreadedFeeder"
  /\ raises = FALSE

\* A mutant of OnFailure: the feeder answers any error with the end-marker.
OnFailurePutsMarker(q) == QPut(q, END)

\* feeder(), next(i) raising an error other than StopIteration: no handler
\* matches, the error leaves the loop and the thread; nothing is put.
OnFailure(q) == q

\* feeder(): one turn of the loop, output_queue.put(next(i)); on StopIteration
\* put the end-marker and leave the loop; on any other error the thread dies.
Feed ==
  /\ fpc = "run"
  /\ IF gi < Len(gen)
       THEN /\ output_queue' = QPut(output_queue, gen[gi + 1])
            /\ gi' = gi + 1
            /\ fpc' = fpc
       ELSE IF raises
       THEN /\ output_queue' = OnFailure(output_queue)
            /\ fpc' = "dead"
            /\ gi' = gi
       ELSE /\ output_queue' = QPut(output_queue, END)
            /\ fpc' = "done"
            /\ gi' = gi
  /\ UNCHANGED otherThanFeeder
  /\ UNCHANGED <<gen, nReaders, rpc, rcv, fkind, raises, firstPass>>

\* iterqueue: item = queue.get() (blocks while the queue is empty); a payload is
\* yielded to the reader, the end-marker sends the loop to its re-put.
ReaderGet(r) ==
  /\ fkind = "ThreadedFeeder"
  /\ r <= nReaders
  /\ rpc[r] = "get"
  /\ output_queue /= <<>>
  /\ output_queue' = Tail(output_queue)
  /\ IF Head(output_queue) = END
       THEN /\ rpc' = [rpc EXCEPT ![r] = "reput"]
            /\ rcv' = rcv
       ELSE /\ rcv' = [rcv EXCEPT ![r] = Append(@, Head(output_queue))]
            /\ rpc' = rpc
  /\ UNCHANGED otherThanFeeder
  /\ UNCHANGED <<gen, gi, fpc, nReaders, fkind, raises, firstPass>>

\* iterqueue: queue.put(StopIteration); break. The reader sees end-of-stream.
ReaderReput(r) ==
  /\ r <= nReaders
  /\ rpc[r] = "reput"
  /\ output_queue' = Rebroadcast(output_queue)
  /\ rpc' = [rpc EXCEPT ![r] = "done"]
  /\ UNCHANGED otherThanFeeder
  /\ UNCHANGED <<gen, gi, fpc, nReaders, rcv, fkind, raises, firstPass>>

Reader(r) == ReaderGet(r) \/ ReaderReput(r)

FeederNext ==
  \/ Feed
  \/ \E r \in Readers : ReaderGet(r)
  \/ \E r \in Readers : ReaderReput(r)

\* A feeder and its readers alone: no pool is in play.
InitF == FeederInit /\ PoolOff /\ CollectorOff /\ AttachOff /\ MergeOff /\ Unsteered

SpecFeeder == InitF /\ [][FeederNext]_vars

\* Threads are scheduled preemptively: a thread that can run eventually does.
FairSpecFeeder ==
  /\ SpecFeeder
  /\ WF_vars(Feed)
  /\ \A r \in Readers : WF_vars(Reader(r))

\* Only the feeder's own thread is sure to run: the readers are other threads'
\* calls, which may never come.
FairSpecFeederAlone ==
  /\ SpecFeeder
  /\ WF_vars(Feed)

\* A ThreadedFeeder whose generator may end with an error instead of
\* exhaustion, and its readers.
InitFail ==
  /\ FeederSetup
  /\ fkind = "ThreadedFeeder"
  /\ raises \in BOOLEAN
  /\ PoolOff /\ CollectorOff /\ AttachOff /\ MergeOff /\ Unsteered

SpecFeederFail == InitFail /\ [][FeederNext]_vars

FairSpecFeederFail ==
  /\ SpecFeederFail
  /\ WF_vars(Feed)
  /\ \A r \in Readers : WF_vars(Reader(r))

\* ForkedFeeder's iterrecv: item = pipe.recv() (blocks while the pipe is empty);
\* a payload is yielded, the end-marker ends the loop and is not sent again.
\* recv raises EOFError only once every write end is closed; the parent never
\* closes its own (inpipe, line 679, stays referenced by the process target),
\* so on an empty pipe the reader waits.
Recv(r) ==
  /\ fkind = "ForkedFeeder"
  /\ r <= nReaders
  /\ rpc[r] = "get"
  /\ output_queue /= <<>>
  /\ output_queue' = Tail(output_queue)
  /\ IF Head(output_queue) = END
       THEN /\ rpc' = [rpc EXCEPT ![r] = "done"]
            /\ rcv' = rcv
       ELSE /\ rcv' = [rcv EXCEPT ![r] = Append(@, Head(output_queue))]
            /\ rpc' = rpc
  /\ UNCHANGED otherThanFeeder
  /\ UNCHANGED <<gen, gi, fpc, nReaders, fkind, raises, firstPass>>

\* A reader whose first iteration has ended calls iter(feeder) again: __iter__
\* returns a new generator over the same queue or pipe; the feeder's thread or
\* process, started by the constructor, is not started again.
Reiterate(r) ==
  /\ r <= nReaders
  /\ rpc[r] = "done"
  /\ firstPass[r] = -1
  /\ firstPass' = [firstPass EXCEPT ![r] = Len(rcv[r])]
  /\ rpc' = [rpc EXCEPT ![r] = "get"]
  /\ UNCHANGED otherThanFeeder
  /\ UNCHANGED <<gen, gi, fpc, output_queue, nReaders, rcv, fkind, raises>>

ReiterateNext ==
  \/ Feed
  \/ \E r \in Readers : ReaderGet(r)
  \/ \E r \in Readers : ReaderReput(r)
  \/ \E r \in Readers : Recv(r)
  \/ \E r \in Readers : Reiterate(r)

\* A feeder of either kind whose readers may iterate it a second time.
InitReiterate ==
  /\ FeederSetup
  /\ fkind \in {"ThreadedFeeder", "ForkedFeeder"}
  /\ raises = FALSE
  /\ PoolOff /\ CollectorOff /\ AttachOff /\ MergeOff /\ Unsteered

SpecReiterate == InitReiterate /\ [][ReiterateNext]_vars

\* ---- claims about the feeder

\* C1: with a single consumer, what the consumer has received is always a
\* prefix of the generator's sequence e0..en-1 (each item once, in order); the
\* consumer observes end-of-stream only after receiving all of it; and until it
\* has observed end-of-stream some step is possible (no interleaving blocks).
C1_FeederDeliversInOrder ==
  nReaders = 1 =>
    /\ IsPrefix(rcv[1], gen)
    /\ (rpc[1] \in {"reput", "done"} => rcv[1] = gen)
    /\ (rpc[1] /= "done" => ENABLED FeederNext)

\* C1's case: a single consumer has read a sequence of two different items or
\* more to the end.
C1_Witness ==
  /\ nReaders = 1
  /\ rpc[1] = "done"
  /\ Len(gen) >= 2
  /\ gen[1] /= gen[2]
  /\ rcv[1] = gen

\* C2: once the producer has put its end-marker, two or more consumer loops on
\* the same queue all come to observe end-of-stream, whatever the interleaving
\* of their get and re-put steps.
C2_RebroadcastReachesAll ==
  (nReaders >= 2 /\ fpc = "done") ~> (\A r \in 1..nReaders : rpc[r] = "done")

\* C2's case: two consumers both stopped, one of them without receiving any
\* payload although the generator produced some.
C2_Witness ==
  /\ nReaders = 2
  /\ rpc[1] = "done" /\ rpc[2] = "done"
  /\ gen /= <<>>
  /\ rcv[2] = <<>>

RECURSIVE IsSubseq(_, _)
\* s can be obtained from t by deleting elements (the order of t is kept).
IsSubseq(s, t) ==
  IF s = <<>> THEN TRUE
  ELSE IF t = <<>> THEN FALSE
  ELSE IF Head(s) = Head(t) THEN IsSubseq(Tail(s), Tail(t))
  ELSE IsSubseq(s, Tail(t))

RECURSIVE ReceivedByFirst(_)
\* Everything readers 1..n have received, reader after reader.
ReceivedByFirst(n) ==
  IF n = 0 THEN <<>> ELSE ReceivedByFirst(n - 1) \o rcv[n]

\* The payloads waiting on the feeder's queue.
QueuedPayloads == SelectSeq(output_queue, LAMBDA x : x /= END)

\* Each reader's items are in generator order, and the items produced so far
\* are, with multiplicities, those received by some reader or still queued.
C18_DeliveredOnceInOrder ==
  nReaders >= 2 =>
    /\ \A r \in 1..nReaders : IsSubseq(rcv[r], gen)
    /\ MultisetEq(ReceivedByFirst(nReaders) \o QueuedPayloads,
                  SubSeq(gen, 1, gi))

\* C18: with several readers on one ThreadedFeeder over a finite generator,
\* every produced item goes to exactly one reader (no loss, no duplication),
\* each reader receives its items in the order the generator produced them, and
\* every reader eventually observes end-of-stream (with nothing left queued).
C18_SharedFeederDeliversOnce ==
  /\ []C18_DeliveredOnceInOrder
  /\ <>[](/\ \A r \in 1..nReaders : rpc[r] = "done"
          /\ QueuedPayloads = <<>>)

\* C18's case: two readers both stopped after sharing a three-item sequence,
\* each having received part of it.
C18_Witness ==
  /\ nReaders = 2
  /\ rpc[1] = "done" /\ rpc[2] = "done"
  /\ Len(gen) = 3
  /\ rcv[1] /= <<>> /\ rcv[2] /= <<>>
  /\ rcv[1] /= rcv[2]

\* While the generator is one that raises: no end-marker is ever on the queue,
\* no reader observes end-of-stream, and a single consumer has received a
\* prefix of e0..ej.
C17_NoEndAfterFailure ==
  raises =>
    /\ END \notin Range(output_queue)
    /\ \A r \in 1..nReaders : rpc[r] = "get"
    /\ (nReaders = 1 => IsPrefix(rcv[1], gen))

\* The feeder thread is dead, the single consumer holds all of e0..ej and
\* waits in get() on an empty queue that nobody will put to.
C17_BlockedAfterAll ==
  /\ fpc = "dead"
  /\ rcv[1] = gen
  /\ rpc[1] = "get"
  /\ output_queue = <<>>

\* C17: if the generator of a ThreadedFeeder raises an error other than
\* exhaustion after producing e0..ej, the feeder thread ends without putting
\* the end-marker; a consumer still receives e0..ej in order and then never
\* observes end-of-stream: it stays blocked in get() forever.
C17_FailureLeavesReaderBlocked ==
  /\ []C17_NoEndAfterFailure
  /\ (raises /\ nReaders = 1) ~> []C17_BlockedAfterAll

\* C17's case: the generator raised after two items or more, and the single
\* consumer has received them all and waits.
C17_Witness ==
  /\ raises
  /\ nReaders = 1
  /\ Len(gen) >= 2
  /\ C17_BlockedAfterAll

\* C13: once a reader has read a feeder's output to end-of-stream, a second
\* iteration yields nothing, is never left blocked (while it has not ended
\* some step is possible), and the generator is not run again.
C13_SecondIterationEmptyAndEnds ==
  \A r \in 1..nReaders :
    firstPass[r] >= 0 =>
      /\ Len(rcv[r]) = firstPass[r]
      /\ gi = Len(gen) /\ fpc = "done"
      /\ (rpc[r] /= "done" => ENABLED ReiterateNext)

\* No reader has taken anything from the feeder's queue.
NothingRead ==
  \A r \in 1..nReaders : rpc[r] = "get" /\ rcv[r] = <<>>

\* The feeder thread can always take its next step (put never blocks), and
\* while nothing was read the queue holds what the generator has yielded so
\* far, followed by the end-marker once the thread has ended.
C23_PutsAllUnread ==
  /\ (fpc = "run" => ENABLED Feed)
  /\ (NothingRead =>
        output_queue = SubSeq(gen, 1, gi) \o (IF fpc = "done" THEN <<END>> ELSE <<>>))
  /\ (fpc = "done" => gi = Len(gen))

\* C23: a ThreadedFeeder's thread drives a finite generator to completion,
\* puts every item and then the end-marker on the output queue, never blocks
\* on put, and terminates even if no consumer ever reads from the feeder.
C23_FeederIsEager ==
  /\ []C23_PutsAllUnread
  /\ <>[](fpc = "done")

\* C23's case: the feeder thread has ended over a three-item generator while
\* no reader has read anything: all items and the marker are queued.
C23_Witness ==
  /\ fpc = "done"
  /\ NothingRead
  /\ Len(gen) = 3
  /\ output_queue = gen \o <<END>>

\* ------------------------------------------- AsyncThreadPool / AsyncProcessPool

Workers == 1..MaxPool

\* The doctest's element-wise function: square = lambda x: x*x.
Square(x) == x * x

\* A mutant of ApplyFunction: the worker forwards its input item unchanged.
ApplyNothing(x) == x

\* next(output) for output = map(square)(input): the function applied to the
\* item the worker's iterqueue(inqueue) yielded.
ApplyFunction(x) == Square(x)

\* f applied to every element of a sequence, for f = square.
MapSeq(s) == [i \in DOMAIN s |-> Square(s[i])]

\* The payloads queued in q, in order (its end-markers left out).
Payloads(q) == SelectSeq(q, LAMBDA x : x /= END)

\* A mutant of JoinReturns: join() returns while the worker is still running.
JoinNoWait(w) == TRUE

\* t.join() on worker w returns once that worker's thread has terminated,
\* whether it left its loop by break or was ended by an error.
JoinReturns(w) == wpc[w] \in {"done", "dead"}

\* Before the constructor is called: the arguments are chosen, nothing runs.
PoolSetup ==
  /\ poolsize \in 0..MaxPool
  /\ pool = "none"
  /\ upstream \in SeqsUpTo(Vals, MaxLen)
  /\ fdpc = "none" /\ fdi = 0 /\ fed = <<>>
  /\ inqueue = <<>> /\ outqueue = <<>>
  /\ wpc = [w \in Workers |-> "off"]
  /\ witem = [w \in Workers |-> 0]
  /\ clpc = "off" /\ cljoin = 0 /\ outMarkers = 0
  /\ opc = "get" /\ out = <<>>

\* A pool whose function raises on no item.
PoolInit ==
  /\ PoolSetup
  /\ failOn = 0

\* AsyncThreadPool.__init__: creates the two queues, starts range(poolsize)
\* worker threads and the cleanup thread. No argument is checked: the
\* constructor returns a pool for every poolsize, 0 included.
Construct ==
  /\ pool = "none"
  /\ pool' = "constructed"
  /\ wpc' = [w \in Workers |-> IF w <= poolsize THEN "get" ELSE "off"]
  /\ clpc' = "join"
  /\ cljoin' = 1
  /\ UNCHANGED otherThanPool
  /\ UNCHANGED <<failOn, poolsize, upstream, fdpc, fdi, fed, inqueue, outqueue,
                 witem, outMarkers, opc, out>>

\* AsyncThreadPool.__call__(inpipe): starts the feeder thread.
Pipe ==
  /\ pool = "constructed"
  /\ fdpc = "none"
  /\ fdpc' = "run"
  /\ UNCHANGED otherThanPool
  /\ UNCHANGED <<failOn, poolsize, pool, upstream, fdi, fed, inqueue, outqueue,
                 wpc, witem, clpc, cljoin, outMarkers, opc, out>>

\* feeder(): inqueue.put(item) for each item of inpipe, then
\* inqueue.put(StopIteration).
PoolFeed ==
  /\ fdpc = "run"
  /\ IF fdi < Len(upstream)
       THEN /\ inqueue' = QPut(inqueue, upstream[fdi + 1])
            /\ fed' = Append(fed, upstream[fdi + 1])
            /\ fdi' = fdi + 1
            /\ fdpc' = fdpc
       ELSE /\ inqueue' = QPut(inqueue, END)
            /\ fed' = Append(fed, END)
            /\ fdpc' = "done"
            /\ fdi' = fdi
  /\ UNCHANGED otherThanPool
  /\ UNCHANGED <<failOn, poolsize, pool, upstream, outqueue, wpc, witem, clpc,
                 cljoin, outMarkers, opc, out>>

\* work(): next(output) pulls one item through iterqueue(self.inqueue); a
\* payload is held for the put, the end-marker sends iterqueue to its re-put.
WorkGet(w) ==
  /\ w <= poolsize
  /\ wpc[w] = "get"
  /\ inqueue /= <<>>
  /\ inqueue' = Tail(inqueue)
  /\ IF Head(inqueue) = END
       THEN /\ wpc' = [wpc EXCEPT ![w] = "reput"]
            /\ witem' = witem
       ELSE /\ wpc' = [wpc EXCEPT ![w] = "put"]
            /\ witem' = [witem EXCEPT ![w] = Head(inqueue)]
  /\ UNCHANGED otherThanPool
  /\ UNCHANGED <<failOn, poolsize, pool, upstream, fdpc, fdi, fed, outqueue, clpc,
                 cljoin, outMarkers, opc, out>>

\* work(): self.outqueue.put(next(output)). If the function raises on the
\* item, next(output) raises an error that is not StopIteration: no handler
\* matches, nothing is put and the worker's thread ends.
WorkPut(w) ==
  /\ w <= poolsize
  /\ wpc[w] = "put"
  /\ IF witem[w] = failOn
       THEN /\ wpc' = [wpc EXCEPT ![w] = "dead"]
            /\ UNCHANGED <<outqueue, outMarkers>>
       ELSE /\ outqueue' = QPut(outqueue, ApplyFunction(witem[w]))
            /\ outMarkers' =
                 outMarkers + (IF ApplyFunction(witem[w]) = END THEN 1 ELSE 0)
            /\ wpc' = [wpc EXCEPT ![w] = "get"]
  /\ witem' = [witem EXCEPT ![w] = 0]
  /\ UNCHANGED otherThanPool
  /\ UNCHANGED <<failOn, poolsize, pool, upstream, fdpc, fdi, fed, inqueue, clpc,
                 cljoin, opc, out>>

\* work(): iterqueue re-puts the end-marker on inqueue and stops; output raises
\* StopIteration, the worker breaks out of its loop and its thread ends.
WorkReput(w) ==
  /\ w <= poolsize
  /\ wpc[w] = "reput"
  /\ inqueue' = Rebroadcast(inqueue)
  /\ wpc' = [wpc EXCEPT ![w] = "done"]
  /\ UNCHANGED otherThanPool
  /\ UNCHANGED <<failOn, poolsize, pool, upstream, fdpc, fdi, fed, outqueue, witem,
                 clpc, cljoin, outMarkers, opc, out>>

Work(w) == WorkGet(w) \/ WorkPut(w) \/ WorkReput(w)

\* cleanup(): for t in self.worker_threads: t.join(), one worker at a time.
CleanJoin ==
  /\ clpc = "join"
  /\ cljoin <= poolsize
  /\ JoinReturns(cljoin)
  /\ cljoin' = cljoin + 1
  /\ UNCHANGED otherThanPool
  /\ UNCHANGED <<failOn, poolsize, pool, upstream, fdpc, fdi, fed, inqueue, outqueue,
                 wpc, witem, clpc, outMarkers, opc, out>>

\* cleanup(): after the last join, self.outqueue.put(StopIteration).
CleanPut ==
  /\ clpc = "join"
  /\ cljoin > poolsize
  /\ outqueue' = QPut(outqueue, END)
  /\ outMarkers' = outMarkers + 1
  /\ clpc' = "done"
  /\ UNCHANGED otherThanPool
  /\ UNCHANGED <<failOn, poolsize, pool, upstream, fdpc, fdi, fed, inqueue, wpc,
                 witem, cljoin, opc, out>>

Cleanup == CleanJoin \/ CleanPut

\* The pool's consumer, iterqueue(self.outqueue): item = queue.get().
ConsGet ==
  /\ pool = "constructed"
  /\ opc = "get"
  /\ outqueue /= <<>>
  /\ outqueue' = Tail(outqueue)
  /\ IF Head(outqueue) = END
       THEN /\ opc' = "reput" /\ out' = out
       ELSE /\ out' = Append(out, Head(outqueue)) /\ opc' = opc
  /\ UNCHANGED otherThanPool
  /\ UNCHANGED <<failOn, poolsize, pool, upstream, fdpc, fdi, fed, inqueue, wpc,
                 witem, clpc, cljoin, outMarkers>>

\* The pool's consumer: queue.put(StopIteration); break.
ConsReput ==
  /\ opc = "reput"
  /\ outqueue' = Rebroadcast(outqueue)
  /\ opc' = "done"
  /\ UNCHANGED otherThanPool
  /\ UNCHANGED <<failOn, poolsize, pool, upstream, fdpc, fdi, fed, inqueue, wpc,
                 witem, clpc, cljoin, outMarkers, out>>

Consume == ConsGet \/ ConsReput

PoolNext ==
  \/ Construct
  \/ Pipe
  \/ PoolFeed
  \/ \E w \in Workers : WorkGet(w)
  \/ \E w \in Workers : WorkPut(w)
  \/ \E w \in Workers : WorkReput(w)
  \/ CleanJoin
  \/ CleanPut
  \/ ConsGet
  \/ ConsReput

\* A pool alone: no feeder is in play.
InitP == PoolInit /\ FeederOff /\ CollectorOff /\ AttachOff /\ MergeOff /\ Unsteered

SpecPool == InitP /\ [][PoolNext]_vars

\* A pool whose function raises on one value, its upstream and its consumer.
InitPoolFail ==
  /\ PoolSetup
  /\ failOn \in Vals
  /\ FeederOff /\ CollectorOff /\ AttachOff /\ MergeOff /\ Unsteered

SpecPoolFail == InitPoolFail /\ [][PoolNext]_vars

\* Every started thread eventually runs when it can: the feeder, the workers,
\* the cleanup thread and the thread consuming the output.
FairSpecPool ==
  /\ SpecPool
  /\ WF_vars(PoolFeed)
  /\ \A w \in Workers : WF_vars(Work(w))
  /\ WF_vars(Cleanup)
  /\ WF_vars(Consume)

\* ---- claims about the worker pool

\* The results still owed for the items some worker holds between get and put.
InFlight(w) == IF wpc[w] = "put" THEN <<Square(witem[w])>> ELSE <<>>

RECURSIVE AllInFlight(_)
AllInFlight(n) == IF n = 0 THEN <<>> ELSE AllInFlight(n - 1) \o InFlight(n)

\* Everything the pool has produced or still owes: what the consumer received,
\* the results queued, the results in flight, and f of every input not yet
\* taken by a worker.
Accounted ==
  out \o Payloads(outqueue) \o AllInFlight(MaxPool)
      \o MapSeq(Payloads(inqueue)) \o MapSeq(SubSeq(upstream, fdi + 1, Len(upstream)))

\* C3: for a pool of size k >= 1 and input S, no result is lost or duplicated
\* at any moment (received, queued, in flight and pending results together are
\* multiset-equal to {f(x) : x in S}), and when the consumer has seen the end
\* of the output it has received exactly that multiset.
C3_PoolOutputIsImageOfInput ==
  (pool = "constructed" /\ poolsize >= 1) =>
    /\ MultisetEq(Accounted, MapSeq(upstream))
    /\ (opc \in {"reput", "done"} => MultisetEq(out, MapSeq(upstream)))

\* C3's case: a pool of two workers has delivered the results of three inputs,
\* not all equal, and the consumer has seen the end.
C3_Witness ==
  /\ poolsize = 2
  /\ opc = "done"
  /\ Len(upstream) = 3
  /\ Cardinality(Range(upstream)) = 2
  /\ MultisetEq(out, MapSeq(upstream))

\* C4: a pool of size 0 is rejected by the constructor: no pool object is ever
\* produced for poolsize = 0.
C4_ZeroPoolRejected == poolsize = 0 => pool /= "constructed"

\* C5: the pool contexts put at most one end-marker on the output queue; when
\* it has been put, the cleanup context has put it and every one of the N
\* workers has terminated (so none holds a result it would still put).
C5_OneMarkerAfterAllWorkers ==
  /\ outMarkers <= 1
  /\ (outMarkers = 1) = (clpc = "done")
  /\ (outMarkers = 1 =>
        \A w \in 1..poolsize : wpc[w] = "done")
  /\ \A i \in 1..Len(outqueue) :
        outqueue[i] = END => \A w \in 1..poolsize : wpc[w] = "done"

\* C5's case: the cleanup context has put the marker of a pool of two workers
\* that both produced a result.
C5_Witness ==
  /\ poolsize = 2
  /\ clpc = "done"
  /\ outMarkers = 1
  /\ Len(upstream) >= 2
  /\ Len(out) + Len(Payloads(outqueue)) = Len(upstream)

\* C6: the feeder puts every upstream item once, in order, and then one
\* end-marker on the input queue; and once a pool of N >= 1 workers is fed,
\* every worker comes to observe the end-marker and terminate, the cleanup
\* context runs, and the consumer sees the output end.
C6_EveryWorkerTerminates ==
  /\ [](IsPrefix(fed, upstream \o <<END>>))
  /\ [](fdpc = "done" => fed = upstream \o <<END>>)
  /\ (poolsize >= 1 /\ fdpc = "run") ~>
       (/\ \A w \in 1..poolsize : wpc[w] = "done"
        /\ clpc = "done"
        /\ opc = "done")

\* C6's case: two workers, fed a non-empty input, have both terminated and the
\* consumer has seen the end of the output.
C6_Witness ==
  /\ poolsize = 2
  /\ upstream /= <<>>
  /\ fed = upstream \o <<END>>
  /\ wpc[1] = "done" /\ wpc[2] = "done"
  /\ clpc = "done"
  /\ opc = "done"

\* C16: once a worker's function has raised on an item, the pool's consumer
\* does not observe a normal end-of-stream (the code has no path that hands
\* the error to the consumer, so a failure that is not swallowed would leave
\* the consumer waiting).
C16_FailureNotSwallowed ==
  (\E w \in 1..poolsize : wpc[w] = "dead") => opc = "get"

\* ---- the queues read through iterqueue, in either machine

\* Either a feeder with its readers or a pool with its upstream and consumer
\* (beside a feeder, the pool's steps can only construct and drive a pool of
\* size 0 with nothing piped in).
InitChannels == InitF \/ InitP

ChannelsNext ==
  \/ Feed
  \/ \E r \in Readers : ReaderGet(r)
  \/ \E r \in Readers : ReaderReput(r)
  \/ Construct
  \/ Pipe
  \/ PoolFeed
  \/ \E w \in Workers : WorkGet(w)
  \/ \E w \in Workers : WorkPut(w)
  \/ \E w \in Workers : WorkReput(w)
  \/ CleanJoin
  \/ CleanPut
  \/ ConsGet
  \/ ConsReput

SpecChannels == InitChannels /\ [][ChannelsNext]_vars

\* q holds at most one end-marker and nothing behind it.
SentinelLast(q) ==
  /\ Count(q, END) <= 1
  /\ \A i \in 1..Len(q) : q[i] = END => i = Len(q)

\* C26: a feeder's output queue, a pool's input queue fed by one upstream and
\* a pool's output queue, each read only through iterqueue, hold at most one
\* end-marker at any time and never a payload behind it; once all the
\* consumers of such a queue (there being some) have observed end-of-stream,
\* the queue holds exactly one end-marker and nothing else.
C26_OneMarkerLast ==
  /\ SentinelLast(output_queue)
  /\ SentinelLast(inqueue)
  /\ SentinelLast(outqueue)
  /\ ((nReaders >= 1 /\ \A r \in 1..nReaders : rpc[r] = "done")
        => output_queue = <<END>>)
  /\ ((poolsize >= 1 /\ \A w \in 1..poolsize : wpc[w] = "done")
        => inqueue = <<END>>)
  /\ (opc = "done" => outqueue = <<END>>)

\* C26's case: a pool of two workers whose workers and consumer have all
\* stopped after results were delivered; each queue is left with one marker.
C26_Witness ==
  /\ poolsize = 2
  /\ wpc[1] = "done" /\ wpc[2] = "done"
  /\ opc = "done"
  /\ Len(out) >= 2
  /\ inqueue = <<END>> /\ outqueue = <<END>>

\* ------------------------------------ QCollector / PCollector / PSorter.collect

Src == 1..NumSrc

\* The collectors whose loop polls every source in turn (q.empty(), p.poll());
\* PCollector's loop calls select.select instead.
Polling == {"QCollector", "_PCollector"}

Collectors == Polling \union {"PCollector"}

\* The i-th item source s produces: different for every source and position,
\* the values of different sources interleaved; along one source increasing,
\* or decreasing for a source that breaks a sorter's precondition.
ItemOf(s, i) == 10 * (IF desc[s] THEN srcLen[s] + 1 - i ELSE i) + s

\* Everything source s produces before its end-marker.
SrcData(s) == [i \in 1..srcLen[s] |-> ItemOf(s, i)]

\* The source an item came from.
SourceOf(item) == item % 10

\* Position of the first occurrence of q in list, 0 when there is none
\* (list.index(q), which raises ValueError then).
IndexOf(list, q) ==
  IF \E i \in DOMAIN list : list[i] = q
    THEN CHOOSE i \in DOMAIN list : list[i] = q /\ \A j \in 1..(i - 1) : list[j] /= q
    ELSE 0

\* A mutant of Attach: the new source replaces the list instead of joining it.
AttachReplacing(list, s) == <<s>>

\* __pipe__: self.inqueues.append(inpipe.outqueue).
Attach(list, s) == Append(list, s)

\* A mutant of Retire: the whole active list is dropped at the first marker.
RetireAll(list, q) == <<>>

\* del self.inqueues[self.inqueues.index(q)]: the first occurrence of q goes.
Retire(list, q) ==
  LET k == IndexOf(list, q)
  IN  IF k = 0 THEN list
      ELSE SubSeq(list, 1, k - 1) \o SubSeq(list, k + 1, Len(list))

\* A mutant of Emits: the end-marker is yielded like any item.
EmitsAll(item) == TRUE

\* The collector yields item unless it is StopIteration.
Emits(item) == item /= END

\* A mutant of ReadyOf: select reports every pipe it was given as readable.
AllOf(list) == list

\* The sources of list that have something to read, in list order
\* (select.select's ready list).
ReadyOf(list) == SelectSeq(list, LAMBDA q : chan[q] /= <<>>)

RECURSIVE TotalUpTo(_, _)
\* f[1] + ... + f[n].
TotalUpTo(f, n) == IF n = 0 THEN 0 ELSE TotalUpTo(f, n - 1) + f[n]

\* A collector (or sorter) has been constructed and nothing is registered; the
\* sources exist and run on their own.
CollectorSetup ==
  /\ srcLen \in {f \in [Src -> 0..MaxItems] : TotalUpTo(f, NumSrc) <= MaxItems}
  /\ srcPut = [s \in Src |-> 0]
  /\ chan = [s \in Src |-> <<>>]
  /\ reg = [s \in Src |-> "no"]
  /\ inqueues = <<>>
  /\ cpc = "idle"
  /\ scanIdx = 0
  /\ watch = <<>> /\ ready = <<>> /\ cout = <<>>
  /\ snap = <<>> /\ staged = <<>>
  /\ retired = [s \in Src |-> 0]
  /\ markerRead = [s \in Src |-> 0]

\* A collector, or a sorter seen as far as its collect loop, over sources that
\* each produce increasing items.
CollectorInit ==
  /\ kind \in {"QCollector", "PCollector", "PSorter"}
  /\ desc = [s \in Src |-> FALSE]
  /\ CollectorSetup

\* The first n puts of source s: its items in order, then StopIteration.
Produced(s, n) ==
  [i \in 1..n |-> IF i <= srcLen[s] THEN ItemOf(s, i) ELSE END]

\* A source's own context: put each item, then StopIteration (a pool's workers
\* and cleanup on outqueue; a ForkedFeeder's feed() on its pipe). The puts a
\* source does before it is registered are not seen by anyone until then: they
\* are taken together at its registration.
SrcPutStep(s) ==
  /\ reg[s] /= "no"
  /\ srcPut[s] <= srcLen[s]
  /\ chan' = [chan EXCEPT ![s] =
                QPut(@, IF srcPut[s] < srcLen[s] THEN ItemOf(s, srcPut[s] + 1) ELSE END)]
  /\ srcPut' = [srcPut EXCEPT ![s] = @ + 1]
  /\ UNCHANGED otherThanCollector
  /\ UNCHANGED <<kind, desc, srcLen, reg, inqueues, cpc, scanIdx, watch, ready, cout,
                 snap, staged, retired, markerRead>>

\* No output yet: a collector has yielded nothing, a sorter's merge thread has
\* put nothing on the sorter's output queue.
NothingYielded ==
  /\ cout = <<>>
  /\ output_queue = <<>>
  /\ \A r \in DOMAIN rcv : rcv[r] = <<>>

\* __pipe__(inpipe), at any moment and from any context: the source joins the
\* list, with whatever it has produced so far (n puts) waiting in its channel.
\* reg records when, relative to the loop, the source was registered: "early"
\* before the loop started, "afterEnd" after it ended or died, and in between
\* "gap" with the active list empty, "mid" with the list not empty and nothing
\* yielded yet, "late" with the list not empty and output already produced.
\* A source is registered once, and the sources are numbered in the order of
\* their registration.
Register(s) ==
  /\ reg[s] = "no"
  /\ \A t \in 1..(s - 1) : reg[t] /= "no"
  /\ inqueues' = Attach(inqueues, s)
  /\ \E n \in 0..(srcLen[s] + 1) :
       /\ srcPut' = [srcPut EXCEPT ![s] = n]
       /\ chan' = [chan EXCEPT ![s] = Produced(s, n)]
  /\ reg' = [reg EXCEPT ![s] =
               IF cpc = "idle" THEN "early"
               ELSE IF cpc \in {"ended", "crashed"} THEN "afterEnd"
               ELSE IF inqueues = <<>> THEN "gap"
               ELSE IF NothingYielded THEN "mid"
               ELSE "late"]
  /\ UNCHANGED otherThanCollector
  /\ UNCHANGED <<kind, desc, srcLen, cpc, scanIdx, watch, ready, cout,
                 snap, staged, retired, markerRead>>

\* The first next() on the collector's generator; for a sorter, run(): one
\* staging queue per registered pipe, the copy of inpipes behind qindex, and
\* the collect thread started.
Start ==
  /\ cpc = "idle"
  /\ cpc' = "while"
  /\ IF kind = "PSorter"
       THEN /\ snap' = inqueues
            /\ staged' = [i \in 1..Len(inqueues) |-> <<>>]
       ELSE UNCHANGED <<snap, staged>>
  /\ UNCHANGED otherThanCollector
  /\ UNCHANGED <<kind, desc, srcLen, srcPut, chan, reg, inqueues, scanIdx, watch,
                 ready, cout, retired, markerRead>>

\* A mutant of AtLoopTest: a generator that has returned runs its loop again.
AtLoopTestOrEnded(pc) == pc \in {"while", "ended"}

\* The generator is about to evaluate its while test: it was just started or
\* its for loop is done. A generator that has returned is never resumed.
AtLoopTest(pc) == pc = "while"

\* while self.inqueues: an empty list ends the sequence; otherwise the polling
\* collector starts a scan and the others call select.select(self.inpipes).
LoopTest ==
  /\ AtLoopTest(cpc)
  /\ IF inqueues = <<>>
       THEN /\ cpc' = "ended"
            /\ UNCHANGED <<scanIdx, watch, ready>>
       ELSE IF kind \in Polling
         THEN /\ cpc' = "scan"
              /\ scanIdx' = 1
              /\ ready' = <<>>
              /\ watch' = watch
         ELSE /\ cpc' = "select"
              /\ watch' = inqueues
              /\ UNCHANGED <<scanIdx, ready>>
  /\ UNCHANGED otherThanCollector
  /\ UNCHANGED <<kind, desc, srcLen, srcPut, chan, reg, inqueues, cout, snap, staged,
                 retired, markerRead>>

\* ready = [q for q in self.inqueues if not q.empty()], one queue per step over
\* the live list; at its end the for loop starts (after a sleep when nothing
\* is ready).
ScanStep ==
  /\ cpc = "scan"
  /\ IF scanIdx <= Len(inqueues)
       THEN /\ ready' = IF chan[inqueues[scanIdx]] /= <<>>
                          THEN Append(ready, inqueues[scanIdx]) ELSE ready
            /\ scanIdx' = scanIdx + 1
            /\ cpc' = cpc
       ELSE /\ cpc' = "for"
            /\ scanIdx' = 0
            /\ ready' = ready
  /\ UNCHANGED otherThanCollector
  /\ UNCHANGED <<kind, desc, srcLen, srcPut, chan, reg, inqueues, watch, cout, snap,
                 staged, retired, markerRead>>

\* select.select returns once one of the pipes it was called with is readable,
\* with all of them that are.
SelectReturn ==
  /\ cpc = "select"
  /\ ReadyOf(watch) /= <<>>
  /\ ready' = ReadyOf(watch)
  /\ watch' = <<>>
  /\ cpc' = "for"
  /\ UNCHANGED otherThanCollector
  /\ UNCHANGED <<kind, desc, srcLen, srcPut, chan, reg, inqueues, scanIdx, cout, snap,
                 staged, retired, markerRead>>

\* for q in ready, exhausted: back to the while test.
ForDone ==
  /\ cpc = "for"
  /\ ready = <<>>
  /\ cpc' = "while"
  /\ UNCHANGED otherThanCollector
  /\ UNCHANGED <<kind, desc, srcLen, srcPut, chan, reg, inqueues, scanIdx, watch,
                 ready, cout, snap, staged, retired, markerRead>>

\* A mutant of RestOfReady: the for loop stays on the source it just served.
KeepReady(r) == r

\* for q in ready: after the body has run for one element, the loop goes on
\* with the elements behind it.
RestOfReady(r) == Tail(r)

\* A collector's for q in ready: item = q.get(); StopIteration retires q,
\* anything else is yielded.
CollectStep ==
  /\ cpc = "for"
  /\ kind \in Collectors
  /\ ready /= <<>>
  /\ LET q == Head(ready)
         item == Head(chan[q])
     IN  /\ chan[q] /= <<>>
         /\ chan' = [chan EXCEPT ![q] = Tail(@)]
         /\ ready' = RestOfReady(ready)
         /\ cout' = IF Emits(item) THEN Append(cout, item) ELSE cout
         /\ IF item = END
              THEN /\ inqueues' = Retire(inqueues, q)
                   /\ retired' = [retired EXCEPT ![q] = @ + 1]
                   /\ markerRead' = [markerRead EXCEPT ![q] = @ + 1]
              ELSE UNCHANGED <<inqueues, retired, markerRead>>
  /\ UNCHANGED otherThanCollector
  /\ UNCHANGED <<kind, desc, srcLen, srcPut, reg, cpc, scanIdx, watch, snap, staged>>

\* A sorter's for inpipe in ready: item = inpipe.recv();
\* self.inqueues[qindex(inpipe)].put(item); StopIteration retires the pipe.
\* qindex looks the pipe up in the copy made at run(): for a pipe registered
\* later it raises ValueError after the item was received, and the collect
\* thread dies.
StageStep ==
  /\ cpc = "for"
  /\ kind = "PSorter"
  /\ ready /= <<>>
  /\ LET q == Head(ready)
         item == Head(chan[q])
         k == IndexOf(snap, q)
     IN  /\ chan[q] /= <<>>
         /\ chan' = [chan EXCEPT ![q] = Tail(@)]
         /\ ready' = RestOfReady(ready)
         /\ markerRead' = IF item = END
                            THEN [markerRead EXCEPT ![q] = @ + 1] ELSE markerRead
         /\ IF k = 0
              THEN /\ cpc' = "crashed"
                   /\ UNCHANGED <<staged, inqueues, retired>>
              ELSE /\ staged' = [staged EXCEPT ![k] = QPut(@, item)]
                   /\ cpc' = cpc
                   /\ IF item = END
                        THEN /\ inqueues' = Retire(inqueues, q)
                             /\ retired' = [retired EXCEPT ![q] = @ + 1]
                        ELSE UNCHANGED <<inqueues, retired>>
  /\ UNCHANGED otherThanCollector
  /\ UNCHANGED <<kind, desc, srcLen, srcPut, reg, scanIdx, watch, cout, snap>>

CollectorNext ==
  \/ \E s \in Src : SrcPutStep(s)
  \/ \E s \in Src : Register(s)
  \/ Start
  \/ LoopTest
  \/ ScanStep
  \/ SelectReturn
  \/ ForDone
  \/ CollectStep
  \/ StageStep

\* A collector or sorter and its sources alone.
InitC == CollectorInit /\ FeederOff /\ PoolOff /\ AttachOff /\ MergeOff /\ Unsteered

SpecCollector == InitC /\ [][CollectorNext]_vars

\* ---- claims about the collector

\* The sources registered before the collector's sequence ended.
RegisteredInTime == {s \in Src : reg[s] \in {"early", "mid", "late", "gap"}}

\* The items of source s among those the collector has yielded, in order.
EmittedOf(s) == SelectSeq(cout, LAMBDA x : x /= END /\ SourceOf(x) = s)

RECURSIVE DataOfUpTo(_, _)
\* The items of the sources of S numbered 1..n, one source after the other.
DataOfUpTo(S, n) ==
  IF n = 0 THEN <<>>
  ELSE DataOfUpTo(S, n - 1) \o (IF n \in S THEN SrcData(n) ELSE <<>>)

\* C7: when a collector with exactly two sources, registered before its
\* sequence ended, has ended, what it has yielded is multiset-equal to the union
\* of the two sources' items, whichever source finished first and however
\* their puts interleaved.
C7_CollectorEmitsUnion ==
  (kind \in Collectors /\ cpc = "ended" /\ Cardinality(RegisteredInTime) = 2) =>
    MultisetEq(cout, DataOfUpTo(RegisteredInTime, NumSrc))

\* C7's case: a collector has ended after two sources, of two items and of one,
\* and the first item it yielded came from the source registered second.
C7_Witness ==
  /\ kind \in Collectors
  /\ cpc = "ended"
  /\ Cardinality(RegisteredInTime) = 2
  /\ \E a, b \in Src :
       /\ a < b /\ srcLen[a] = 2 /\ srcLen[b] = 1
       /\ reg[a] = "early" /\ reg[b] = "early"
       /\ Len(cout) = 3
       /\ SourceOf(cout[1]) = b
       /\ retired[a] = 1 /\ retired[b] = 1

\* What C8 says of one step of a collector.
CollectorStepEmitsNoMarker ==
  kind \in Collectors =>
    /\ \A s \in Src :
         markerRead'[s] > markerRead[s] =>
           /\ cout' = cout
           /\ \A i \in 1..Len(inqueues') : inqueues'[i] /= s
    /\ (cpc /= "ended" /\ cpc' = "ended") =>
         /\ inqueues = <<>>
         /\ \A s \in Src : reg[s] /= "no" => markerRead[s] = 1
    /\ (cpc = "while" /\ inqueues = <<>> /\ cpc' /= cpc) => cpc' = "ended"

\* C8: a collector never yields an end-marker; the step that reads a source's
\* end-marker removes that source from the active list and yields nothing; the
\* sequence ends only in a step that finds the active list empty, with every
\* source registered so far having delivered its end-marker; and a loop test
\* that finds the list empty ends the sequence.
C8_NoMarkerEmittedEndsWhenEmpty ==
  /\ [](kind \in Collectors => \A i \in 1..Len(cout) : cout[i] /= END)
  /\ [][CollectorStepEmitsNoMarker]_vars

\* C8's case: a collector with two sources has read both end-markers, yielded
\* the items and ended.
C8_Witness ==
  /\ kind \in Collectors
  /\ cpc = "ended"
  /\ \A s \in Src : reg[s] = "early" /\ markerRead[s] = 1 /\ srcLen[s] >= 1
  /\ Len(cout) >= 2
  /\ inqueues = <<>>

\* C9: every source is removed from the active list at most once, in the very
\* step that reads its end-marker (never before, and never later or not at
\* all); a retired source is never in the active list again and is never again
\* among the sources the loop is about to read.
C9_RetiredExactlyOnceAtMarker ==
  \A s \in Src :
    /\ retired[s] <= 1
    /\ retired[s] = markerRead[s]
    /\ (retired[s] = 1 =>
          /\ \A i \in 1..Len(inqueues) : inqueues[i] /= s
          /\ \A i \in 1..Len(ready) : ready[i] /= s)

\* C9 for the collectors alone (QCollector, PCollector), where it holds.
C9_CollectorsOnly == kind \in Collectors => C9_RetiredExactlyOnceAtMarker

\* C10: a source registered with a collector after it has begun producing
\* output and while the active list is not empty joins the active list (it is in it until
\* it is retired); and when the sequence has ended, every item of that source
\* and every item of every other source registered in time has been yielded,
\* each once and in its source's order.
C10_LateSourceFullyEmitted ==
  (kind \in Collectors /\ \E l \in Src : reg[l] = "late") =>
    /\ \A l \in Src :
         reg[l] = "late" =>
           (retired[l] = 1 \/ \E i \in 1..Len(inqueues) : inqueues[i] = l)
    /\ (cpc = "ended" =>
          \A s \in RegisteredInTime : EmittedOf(s) = SrcData(s))

\* C10's case: a source of two items was registered late, after the collector
\* had already yielded the item of an earlier source, and the sequence has
\* ended.
C10_Witness ==
  /\ kind \in Collectors
  /\ cpc = "ended"
  /\ \E e, l \in Src :
       /\ reg[e] = "early" /\ reg[l] = "late"
       /\ srcLen[e] = 1 /\ srcLen[l] = 2
       /\ Len(cout) = 3
       /\ SourceOf(cout[1]) = e
       /\ SourceOf(cout[3]) = l

\* While the for loop runs, the sources still to be served are pairwise
\* different and each has something to read.
C21_ReadyListSound ==
  (kind \in Collectors /\ cpc = "for") =>
    /\ \A i, j \in 1..Len(ready) : ready[i] = ready[j] => i = j
    /\ \A i \in 1..Len(ready) : chan[ready[i]] /= <<>>

\* A step that reads from a source is a step of the for loop: it takes one
\* item from the first source still to be served and moves on to the next;
\* readiness is evaluated again (the for loop left) only with none left.
C21_StepServesEachOnce ==
  kind \in Collectors =>
    /\ \A s \in Src :
         Len(chan'[s]) < Len(chan[s]) =>
           /\ cpc = "for" /\ ready /= <<>> /\ s = Head(ready)
           /\ chan'[s] = Tail(chan[s])
           /\ ready' = Tail(ready)
           /\ \A t \in Src \ {s} : chan'[t] = chan[t]
    /\ (cpc = "for" /\ cpc' /= "for") => ready = <<>>
    /\ (cpc = "for" /\ ready' /= ready) =>
         \E s \in Src : Len(chan'[s]) < Len(chan[s])

\* C21: in each wake-up or polling scan a collector reads exactly one item
\* from every source found ready in that scan before it evaluates readiness
\* again, so a source that always has items cannot starve another ready one.
C21_EachReadySourceServedOnce ==
  /\ []C21_ReadyListSound
  /\ [][C21_StepServesEachOnce]_vars

\* C21's case: of two sources found ready in one scan the first has been
\* served once and still has an item waiting, and the other is served next.
C21_Witness ==
  /\ kind \in Collectors
  /\ cpc = "for"
  /\ Len(cout) = 1
  /\ Len(ready) = 1
  /\ SourceOf(cout[1]) /= ready[1]
  /\ chan[SourceOf(cout[1])] /= <<>>
  /\ Head(chan[SourceOf(cout[1])]) /= END

\* A source registered after the collector's sequence ended is in the list,
\* nothing it has put was read and none of its items was yielded.
C25_LateSourceUnread ==
  \A s \in Src :
    (kind \in Collectors /\ reg[s] = "afterEnd") =>
      /\ IndexOf(inqueues, s) /= 0
      /\ chan[s] = Produced(s, srcPut[s])
      /\ EmittedOf(s) = <<>>

\* A collector whose while test finds the list empty ends without yielding,
\* and an ended collector stays ended and yields nothing more.
C25_StepKeepsEnded ==
  kind \in Collectors =>
    /\ (cpc = "while" /\ inqueues = <<>> /\ cpc' /= cpc) =>
          (cpc' = "ended" /\ cout' = cout)
    /\ cpc = "ended" => (cpc' = "ended" /\ cout' = cout)

\* C25: once a collector's output sequence has ended it stays ended: pulled
\* with an empty active list (nothing registered yet, or everything retired)
\* it ends at once, and a source registered afterwards joins the list but is
\* never read and none of its items is ever emitted.
C25_EndedStaysEnded ==
  /\ []C25_LateSourceUnread
  /\ [][C25_StepKeepsEnded]_vars

\* C25's case: a collector first pulled with nothing registered has ended with
\* no output; a source registered afterwards has put all its items and its
\* marker, which wait unread.
C25_Witness ==
  /\ kind \in Collectors
  /\ cpc = "ended"
  /\ cout = <<>>
  /\ \E s \in Src :
       /\ reg[s] = "afterEnd"
       /\ srcLen[s] >= 2
       /\ srcPut[s] = srcLen[s] + 1
       /\ Len(chan[s]) = srcLen[s] + 1

\* ------------------------------------ PCollector and _PCollector compared

\* The two collectors over pipes: select.select, and poll() on every pipe.
PipeCollectors == {"PCollector", "_PCollector"}

\* seq is an interleaving of the items of the sources in S: it holds the items
\* of each of them, in that source's order, and nothing else.
IsMergeOf(seq, S) ==
  /\ \A i \in 1..Len(seq) : SourceOf(seq[i]) \in S
  /\ \A s \in S : SelectSeq(seq, LAMBDA x : SourceOf(x) = s) = SrcData(s)

\* All items of all sources.
AllItems == {ItemOf(s, i) : s \in Src, i \in 1..MaxItems}

\* Every interleaving of the items of all the sources.
Merges ==
  {seq \in [1..TotalUpTo(srcLen, NumSrc) -> AllItems] : IsMergeOf(seq, Src)}

\* A collector over pipes and its sources; the sources either run as they like
\* or are timed so that the collector's output becomes one chosen interleaving
\* of their items.
CompareInit ==
  /\ kind \in PipeCollectors
  /\ desc = [s \in Src |-> FALSE]
  /\ CollectorSetup
  /\ steered \in BOOLEAN
  /\ goal \in (IF steered THEN Merges ELSE {<<>>})

\* Every pipe is empty.
NothingWaiting == \A s \in Src : chan[s] = <<>>

\* A steered source is piped in before the collector has ended, with nothing
\* sent yet.
SteeredRegister(s) ==
  /\ steered
  /\ cpc /= "ended"
  /\ Register(s)
  /\ srcPut'[s] = 0

\* A steered source sends its next item when that item is the next of the
\* chosen output and nothing else waits to be read; its end-marker it sends
\* whenever nothing else waits to be read.
SteeredPut(s) ==
  /\ steered
  /\ NothingWaiting
  /\ srcPut[s] < srcLen[s] =>
       /\ Len(cout) < Len(goal)
       /\ goal[Len(cout) + 1] = ItemOf(s, srcPut[s] + 1)
  /\ SrcPutStep(s)

\* The steered consumer pulls the collector when every source has been piped
\* in, or when something waits to be read.
SteeredLoopTest ==
  /\ steered
  /\ IF inqueues = <<>> THEN \A s \in Src : reg[s] /= "no" ELSE ~NothingWaiting
  /\ LoopTest

\* The steps of a steered run: each is a step the collector and its sources
\* can take, at a moment chosen for it.
SteeredNext ==
  \/ \E s \in Src : SteeredRegister(s)
  \/ \E s \in Src : SteeredPut(s)
  \/ steered /\ Start
  \/ SteeredLoopTest
  \/ steered /\ ScanStep
  \/ steered /\ SelectReturn
  \/ steered /\ ForDone
  \/ steered /\ CollectStep

CompareNext ==
  \/ ~steered /\ CollectorNext
  \/ SteeredNext

InitCompare == CompareInit /\ FeederOff /\ PoolOff /\ AttachOff /\ MergeOff

SpecCompare == InitCompare /\ [][CompareNext]_vars

\* The pipes the loop is looking at: the list select.select was called with,
\* or the list a polling scan runs over.
LookedAt == IF cpc = "select" THEN watch ELSE inqueues

\* Whatever the timing, a collector over pipes that has ended has emitted an
\* interleaving of the items of the sources piped in before it ended, has read
\* the end-marker of each of them, and its list is empty.
EndsAfterAllSources ==
  cpc = "ended" =>
    /\ IsMergeOf(cout, RegisteredInTime)
    /\ \A s \in RegisteredInTime : markerRead[s] = 1
    /\ \A s \in Src : IndexOf(inqueues, s) /= 0 => reg[s] = "afterEnd"

\* A collector that finds nothing to read is not left waiting: one of the pipes
\* it is looking at still has something to send.
NeverWaitsForEver ==
  (cpc \in {"select", "scan"} /\ LookedAt /= <<>>
     /\ \A i \in 1..Len(LookedAt) : chan[LookedAt[i]] = <<>>) =>
    \E i \in 1..Len(LookedAt) : srcPut[LookedAt[i]] <= srcLen[LookedAt[i]]

\* A steered run stays on the chosen output, can always go on until the
\* collector has ended, and ends with the chosen output emitted. (No steered
\* step is ever undone: each consumes a registration, a put, a waiting item or
\* a position of the loop, and the loop is entered only with something to
\* read; so a run that can always go on does end.)
SteeredRunReachesGoal ==
  steered =>
    /\ IsPrefix(cout, goal)
    /\ cpc /= "ended" => ENABLED SteeredNext
    /\ cpc = "ended" => cout = goal

MaxEntry(h) ==
  CHOOSE e \in h : \A f \in h : f[1] < e[1] \/ (f[1] = e[1] /\ f[2] <= e[2])

\* h[0] of heapq.merge's heap: the least entry, the lists [value, itnum, next]
\* compared by value and then by itnum.
MinEntry(h) ==
  CHOOSE e \in h : \A f \in h : e[1] < f[1] \/ (e[1] = f[1] /\ e[2] <= f[2])

\* The heap's entry of iterable k (there is one at most).
EntryOf(h, k) == {e \in h : e[2] = k}

\* A sorter has been constructed and nothing is registered; its sources exist
\* and run on their own, each increasing or (desc) decreasing. The merge thread
\* and the reader of the sorter's output come into being with run().
SorterInit ==
  /\ kind = "PSorter"
  /\ CollectorSetup
  /\ desc \in {d \in [Src -> BOOLEAN] : \A s \in Src : d[s] => srcLen[s] >= 2}
  /\ mpc = "prime" /\ mi = 1 /\ heap = {}
  /\ gen = <<>> /\ gi = 0 /\ fpc = "run" /\ output_queue = <<>>
  /\ nReaders = 1
  /\ rpc = [r \in Readers |-> "get"]
  /\ rcv = [r \in Readers |-> <<>>]
  /\ fkind = "ThreadedFeeder" /\ raises = FALSE
  /\ firstPass = [r \in Readers |-> -1]

\* heapq.merge, its first loop, run by the feeder thread that run() started:
\* for each iterable in turn, next() on iterqueue(self.inqueues[itnum]) (blocks
\* while that staging queue is empty); a value enters the heap, at the
\* end-marker iterqueue puts it back and the iterable is left out. After the
\* last iterable: heapify.
MergePrime ==
  /\ mpc = "prime"
  /\ cpc /= "idle"
  /\ \/ /\ mi > Len(staged)
        /\ mpc' = "yield"
        /\ mi' = 0
        /\ UNCHANGED <<heap, staged>>
     \/ /\ mi <= Len(staged)
        /\ staged[mi] /= <<>>
        /\ IF Head(staged[mi]) = END
             THEN /\ staged' = [staged EXCEPT ![mi] = Rebroadcast(Tail(@))]
                  /\ heap' = heap
             ELSE /\ staged' = [staged EXCEPT ![mi] = Tail(@)]
                  /\ heap' = heap \union {<<Head(staged[mi]), mi>>}
        /\ mi' = mi + 1
        /\ mpc' = mpc
  /\ UNCHANGED <<fvars, pvars, avars, gvars>>
  /\ UNCHANGED <<kind, desc, srcLen, srcPut, chan, reg, inqueues, cpc, scanIdx,
                 watch, ready, cout, snap, retired, markerRead>>

\* heapq.merge yields the value of h[0] and the feeder thread puts it on
\* output_queue; with the heap empty merge is exhausted and the feeder thread
\* puts the end-marker and ends.
MergeYield ==
  /\ mpc = "yield"
  /\ IF heap = {}
       THEN /\ output_queue' = QPut(output_queue, END)
            /\ fpc' = "done"
            /\ mpc' = "done"
            /\ mi' = mi
       ELSE /\ output_queue' = QPut(output_queue, MinEntry(heap)[1])
            /\ mi' = MinEntry(heap)[2]
            /\ mpc' = "refill"
            /\ fpc' = fpc
  /\ UNCHANGED <<gen, gi, nReaders, rpc, rcv, fkind, raises, firstPass>>
  /\ UNCHANGED <<pvars, cvars, avars, gvars, heap>>

\* heapq.merge after a yield: s[0] = next() on the iterable the value came
\* from (blocks while its staging queue is empty), then heapreplace; at the
\* end-marker iterqueue puts it back and heappop removes the iterable's entry.
MergeRefill ==
  /\ mpc = "refill"
  /\ staged[mi] /= <<>>
  /\ IF Head(staged[mi]) = END
       THEN /\ staged' = [staged EXCEPT ![mi] = Rebroadcast(Tail(@))]
            /\ heap' = heap \ EntryOf(heap, mi)
       ELSE /\ staged' = [staged EXCEPT ![mi] = Tail(@)]
            /\ heap' = (heap \ EntryOf(heap, mi)) \union {<<Head(staged[mi]), mi>>}
  /\ mpc' = "yield"
  /\ mi' = 0
  /\ UNCHANGED <<fvars, pvars, avars, gvars>>
  /\ UNCHANGED <<kind, desc, srcLen, srcPut, chan, reg, inqueues, cpc, scanIdx,
                 watch, ready, cout, snap, retired, markerRead>>

Merge == MergePrime \/ MergeYield \/ MergeRefill

\* The collect thread of PSorter.run.
Collect == LoopTest \/ SelectReturn \/ ForDone \/ StageStep

SorterNext ==
  \/ \E s \in Src : SrcPutStep(s)
  \/ \E s \in Src : Register(s)
  \/ Start
  \/ LoopTest
  \/ SelectReturn
  \/ ForDone
  \/ StageStep
  \/ MergePrime
  \/ MergeYield
  \/ MergeRefill
  \/ \E r \in Readers : ReaderGet(r)
  \/ \E r \in Readers : ReaderReput(r)

\* A PSorter, its sources, its two threads and the reader of its output.
InitS == SorterInit /\ PoolOff /\ AttachOff /\ Unsteered

SpecSorter == InitS /\ [][SorterNext]_vars

\* ---- claims about the sorter

IsSorted(q) == \A i \in 1..(Len(q) - 1) : q[i] <= q[i + 1]

\* The sorter's output: what the reader of its iterator has received.
SorterOutput == rcv[1]

\* The reader of the sorter's output has observed end-of-stream.
SorterEnded == rpc[1] \in {"reput", "done"}

\* The items of source s in the sorter's output, in order.
OutputOf(s) == SelectSeq(SorterOutput, LAMBDA x : SourceOf(x) = s)

\* No source was registered after run() was called.
AllBeforeRun == \A s \in Src : reg[s] \in {"no", "early"}

\* The sources registered before run().
BeforeRun == {s \in Src : reg[s] = "early"}

\* A step of one of the execution contexts of a running sorter: a source, the
\* collect thread, the merge thread or the reader (run() and the registrations
\* are calls of the user, nothing waits for them).
SorterThreads ==
  \/ \E s \in Src : SrcPutStep(s)
  \/ Collect
  \/ Merge
  \/ \E r \in Readers : Reader(r)

\* After run() and until the reader has observed end-of-stream some execution
\* context can take a step: as every step consumes a put, a queued item or a
\* loop position that never comes back, the output ends.
SorterProgress ==
  (cpc /= "idle" /\ rpc[1] /= "done") => ENABLED SorterThreads

\* C11: for a PSorter whose sources were all registered before run() and are
\* each non-decreasing, the output (with what is queued behind it) is globally
\* non-decreasing, an output that has ended is multiset-equal to the union of
\* the sources' items, and the output does end (no interleaving of the sources,
\* the collect thread and the merge thread leaves the reader blocked).
C11_SorterMergesSortedSources ==
  (AllBeforeRun /\ \A s \in Src : ~desc[s]) =>
    /\ IsSorted(SorterOutput \o QueuedPayloads)
    /\ (SorterEnded =>
          MultisetEq(SorterOutput, DataOfUpTo(BeforeRun, NumSrc)))
    /\ SorterProgress

\* C11's case: two increasing sources registered before run(), of two items
\* and of one, merged to the end with the items of the two interleaved.
C11_Witness ==
  /\ BeforeRun = {1, 2}
  /\ \A s \in Src : ~desc[s]
  /\ rpc[1] = "done"
  /\ Len(SorterOutput) = 3
  /\ SourceOf(SorterOutput[1]) = SourceOf(SorterOutput[3])
  /\ SourceOf(SorterOutput[2]) /= SourceOf(SorterOutput[1])

\* The sources registered before the collect loop ended.
SorterSources == {s \in Src : reg[s] \in {"early", "mid", "late"}}

\* C19: when some source registered with a sorter is not non-decreasing, no
\* error is raised, each source's items appear in the output in that source's
\* own order, and an output that has ended is multiset-equal to the union of
\* the sources' items.
C19_UnsortedSourceUndetected ==
  (\E s \in SorterSources : desc[s]) =>
    /\ cpc /= "crashed"
    /\ \A s \in SorterSources : IsPrefix(OutputOf(s), SrcData(s))
    /\ (SorterEnded =>
          MultisetEq(SorterOutput, DataOfUpTo(SorterSources, NumSrc)))

\* The statement of C19 for sources that were all registered before run(),
\* and that the output then ends.
C19_WhenRegisteredBeforeRun ==
  AllBeforeRun => (C19_UnsortedSourceUndetected /\ SorterProgress)

\* C20: a source registered with a PSorter after run() has started gets a
\* staging queue of its own and does not stop the collect thread.
C20_LateSourceStaged ==
  \A s \in Src :
    (kind = "PSorter" /\ reg[s] \in {"mid", "late", "gap"}) =>
      /\ IndexOf(snap, s) /= 0
      /\ cpc /= "crashed"

\* The sorter has emitted an item: its reader has received one or one waits
\* on the output queue.
SorterEmitted == SorterOutput /= <<>> \/ QueuedPayloads /= <<>>

\* The sorter has received nothing from source s, neither an item nor its
\* end-marker.
NothingFrom(s) == Len(chan[s]) = srcPut[s]

\* C24: a sorter emits no item until every source registered with it (before
\* any output) has delivered its first item or its end-marker: one source that
\* has delivered nothing holds back all output.
C24_NoOutputBeforeAllDelivered ==
  \A s \in Src :
    (reg[s] \in {"early", "mid"} /\ NothingFrom(s)) => ~SorterEmitted

\* The statement of C24 for the sources registered before run().
C24_WhenRegisteredBeforeRun ==
  \A s \in BeforeRun : NothingFrom(s) => ~SorterEmitted

\* ------------------------------------------- the attach protocol (__pipe__)

\* The collector and sorter classes: each defines __pipe__.
Consumers ==
  {"PCollector", "_PCollector", "QCollector", "PSorter", "_PSorter", "QSorter"}

\* The producer classes, and "list" for any iterable that is none of them.
Producers ==
  {"ThreadedFeeder", "ForkedFeeder", "AsyncThreadPool", "AsyncProcessPool",
   "list"}

\* The data attributes an instance of producer class p has.
Exposes(p) ==
  CASE p = "ThreadedFeeder" -> {"output_queue", "thread"}
    [] p = "ForkedFeeder" -> {"outpipe", "process"}
    [] p = "AsyncThreadPool" ->
         {"iterator", "function", "poolsize", "inqueue", "outqueue",
          "worker_threads", "cleaner_thread"}
    [] p = "AsyncProcessPool" ->
         {"iterator", "function", "poolsize", "inqueue", "outqueue",
          "worker_processes", "cleaner_thread"}
    [] OTHER -> {}

\* The list attribute the __init__ of consumer class c creates.
OwnList(c) == IF c \in {"QCollector", "QSorter"} THEN "inqueues" ELSE "inpipes"

\* The attribute of self that c.__pipe__ appends to.
AppendsTo(c) == IF c = "QSorter" THEN "inqueue" ELSE OwnList(c)

\* The attribute of the producer that c.__pipe__ reads.
Reads(c) == IF c \in {"QCollector", "QSorter"} THEN "outqueue" ELSE "outpipe"

\* c.__pipe__(p) raises AttributeError: self has no attribute of the name
\* appended to, or the producer has none of the name read.
PipeRaises(c, p) == AppendsTo(c) /= OwnList(c) \/ Reads(c) \notin Exposes(p)

\* A mutant of PipeInto: the producer is appended whatever it exposes.
PipeIntoUnchecked(list, c, p) == Append(list, p)

\* The source list after c.__pipe__(p): both attribute look-ups are evaluated
\* before append is called, so a raising call leaves the list as it was.
PipeInto(list, c, p) == IF PipeRaises(c, p) THEN list ELSE Append(list, p)

\* A collector or sorter of some class, just constructed: nothing attached.
AttachInit ==
  /\ acls \in Consumers
  /\ alist = <<>>
  /\ aprod = "none"
  /\ ares = "none"

\* Stream.pipe(p, consumer), i.e. p >> consumer: the consumer has __pipe__, so
\* consumer.__pipe__(p) is called and its error, if any, reaches the caller.
PipeCall(p) ==
  /\ Len(PipeInto(alist, acls, p)) <= MaxAttach
  /\ aprod' = p
  /\ alist' = PipeInto(alist, acls, p)
  /\ ares' = IF PipeRaises(acls, p) THEN "AttributeError" ELSE "attached"
  /\ acls' = acls
  /\ UNCHANGED otherThanAttach

AttachNext == \E p \in Producers : PipeCall(p)

InitA == AttachInit /\ FeederOff /\ PoolOff /\ CollectorOff /\ MergeOff /\ Unsteered

SpecAttach == InitA /\ [][AttachNext]_vars

\* ---- claims about the attach protocol

\* A pipe call whose producer lacks the endpoint the consumer's class reads
\* raises at once and leaves the source list as it was.
C15_StepFailsAndKeepsList ==
  Reads(acls) \notin Exposes(aprod') =>
    /\ ares' = "AttributeError"
    /\ alist' = alist

\* C15: attaching to a collector or sorter a producer that does not expose the
\* endpoint the variant expects (a fortiori one that exposes neither endpoint)
\* fails synchronously in the pipe call and leaves the set of registered
\* sources unchanged.
C15_BadProducerFailsAtAttach == [][C15_StepFailsAndKeepsList]_vars

\* C15's case: a collector that holds one source or more has just refused a
\* producer that exposes neither outpipe nor outqueue.
C15_Witness ==
  /\ acls \in {"PCollector", "QCollector", "PSorter"}
  /\ Len(alist) >= 1
  /\ Exposes(aprod) \cap {"outpipe", "outqueue"} = {}
  /\ ares = "AttributeError"

\* C14: piping a ThreadedFeeder into a QCollector succeeds and the feeder's
\* output channel joins the collector's active set.
C14_ThreadedFeederAttaches ==
  (acls = "QCollector" /\ aprod = "ThreadedFeeder") =>
    /\ ares = "attached"
    /\ alist /= <<>> /\ alist[Len(alist)] = "ThreadedFeeder"

\* C12: piping a producer that exposes a queue endpoint (outqueue) into a
\* QSorter adds that producer's queue to the sorter's source set.
C12_QSorterAttaches ==
  (acls = "QSorter" /\ "outqueue" \in Exposes(aprod)) =>
    /\ ares = "attached"
    /\ alist /= <<>> /\ alist[Len(alist)] = aprod

====
